---- MODULE Spec2Model ----
(***************************************************************************)
(* Model of the Vedic chart service (main.py, astro_logic.py).             *)
(*                                                                         *)
(* Numbers.  Python floats are modelled as decimal fixed-point values with *)
(* seven fractional digits: the pair <<w, f>> stands for w + f / 10^7 with *)
(* w an integer (the floor) and f in 0 .. 10^7 - 1.  Every arithmetic step *)
(* of the source is carried out on these pairs and truncated to the grid,  *)
(* so round(x, 6) is a real rounding and round(x, 9) is the identity.      *)
(*                                                                         *)
(* Time.  A datetime is a count of half-hour slots of wall-clock time      *)
(* since 0001-01-01T00:00 together with its tzinfo (naive, or a UTC offset *)
(* in slots).  TT - UTC and UT1 - UTC (about a minute) are below the slot  *)
(* and are taken as zero in the Julian dates of a Skyfield time.           *)
(*                                                                         *)
(* Trigonometry.  math.sin/cos are read from a one-degree table scaled by  *)
(* TrigScale, and math.atan2 returns the whole degree closest in direction *)
(* to its argument.                                                        *)
(***************************************************************************)
EXTENDS Integers, Sequences, FiniteSets, TLC

----------------------------------------------------------------------------
(* Fixed-point arithmetic *)

ONE == 10000000

FracDigits == 7

Norm(w, f) == <<w + (f \div ONE), f % ONE>>

FP(w, f) == Norm(w, f)

Whole(n) == <<n, 0>>

Add(x, y) == Norm(x[1] + y[1], x[2] + y[2])

Sub(x, y) == Norm(x[1] - y[1], x[2] - y[2])

Neg(x) == Norm(-x[1], -x[2])

Lt(x, y) == x[1] < y[1] \/ (x[1] = y[1] /\ x[2] < y[2])

Leq(x, y) == x = y \/ Lt(x, y)

IsNeg(x) == x[1] < 0

\* floor(a * b / c) and the remainder, for a, b >= 0 and 0 < c < 2^27,
\* computed one decimal digit of b at a time so that no intermediate
\* exceeds 32 bits.
RECURSIVE MulDiv(_, _, _)
MulDiv(a, b, c) ==
    IF b = 0 \/ a = 0 THEN <<0, 0>>
    ELSE LET h  == MulDiv(a, b \div 10, c)
             ad == (b % 10) * a
             r  == ((10 * h[2]) % c) + (ad % c)
         IN  <<10 * h[1] + ((10 * h[2]) \div c) + (ad \div c) + (r \div c), r % c>>

\* x * y for x, y >= 0, truncated to the grid
MulPos(x, y) ==
    LET a == MulDiv(x[1], y[2], ONE)
        b == MulDiv(y[1], x[2], ONE)
        c == MulDiv(x[2], y[2], ONE)
    IN  Norm(x[1] * y[1] + a[1] + b[1], a[2] + b[2] + c[1])

Abs(x) == IF IsNeg(x) THEN Neg(x) ELSE x

\* float multiplication x * y
Mul(x, y) ==
    IF IsNeg(x) = IsNeg(y) THEN MulPos(Abs(x), Abs(y))
    ELSE Neg(MulPos(Abs(x), Abs(y)))

\* x / n for a positive whole number n < 2^27, cut down to the grid
DivPos(x, n) ==
    LET rw == x[1] % n
        m  == MulDiv(rw, ONE, n)
    IN  Norm(x[1] \div n, m[1] + ((m[2] + x[2]) \div n))

DivNat(x, n) == DivPos(x, n)

\* Python's x % m for a positive whole number m: the result is in [0, m)
PyMod(x, m) == <<x[1] % m, x[2]>>

\* int(x): truncation toward zero
PyInt(x) == IF x[1] < 0 /\ x[2] > 0 THEN x[1] + 1 ELSE x[1]

Pow10(n) == IF n = 0 THEN 1 ELSE IF n = 1 THEN 10 ELSE IF n = 2 THEN 100
            ELSE IF n = 3 THEN 1000 ELSE IF n = 4 THEN 10000
            ELSE IF n = 5 THEN 100000 ELSE IF n = 6 THEN 1000000 ELSE ONE

\* round(x, nd): to the nearest multiple of 10^-nd, ties to even.  On the
\* seven-digit grid rounding to seven or more digits changes nothing.
PyRound(x, nd) ==
    IF nd >= FracDigits THEN x
    ELSE LET step == Pow10(FracDigits - nd)
             lo   == x[2] - (x[2] % step)
             rem  == x[2] % step
             odd  == IF step = ONE THEN x[1] % 2 = 1
                     ELSE (lo \div step) % 2 = 1
             up   == 2 * rem > step \/ (2 * rem = step /\ odd)
         IN  Norm(x[1], IF up THEN lo + step ELSE lo)

----------------------------------------------------------------------------
(* datetime: wall-clock half-hour slots since 0001-01-01T00:00 and tzinfo *)

SlotsPerDay == 48

MINYEAR == 1

MAXYEAR == 9999

IsLeap(y) == y % 4 = 0 /\ (y % 100 # 0 \/ y % 400 = 0)

DaysBeforeYear(y) ==
    (y - 1) * 365 + ((y - 1) \div 4) - ((y - 1) \div 100) + ((y - 1) \div 400)

DaysInYear(y) == IF IsLeap(y) THEN 366 ELSE 365

DaysBeforeMonth(y, m) ==
    LET cum == <<0, 31, 59, 90, 120, 151, 181, 212, 243, 273, 304, 334>>
    IN  cum[m] + (IF m > 2 /\ IsLeap(y) THEN 1 ELSE 0)

\* datetime(y, m, d, hh, mm) with mm in {0, 30}, as a slot count
Slot(y, m, d, hh, mm) ==
    (DaysBeforeYear(y) + DaysBeforeMonth(y, m) + (d - 1)) * SlotsPerDay
        + 2 * hh + (mm \div 30)

\* datetime.min and datetime.max on the slot grid
MinSlot == Slot(MINYEAR, 1, 1, 0, 0)

MaxSlot == Slot(MAXYEAR, 12, 31, 23, 30)

\* dt.year: the year whose days contain the slot
YearOf(s) ==
    LET d    == s \div SlotsPerDay
        n400 == d \div 146097
        r400 == d % 146097
        n100 == r400 \div 36524
        r100 == r400 % 36524
        n4   == r100 \div 1461
        r4   == r100 % 1461
        n1   == r4 \div 365
        y    == n400 * 400 + n100 * 100 + n4 * 4 + n1 + 1
    IN  IF n1 = 4 \/ n100 = 4 THEN y - 1 ELSE y

\* timezone(timedelta(hours=5, minutes=30)), in slots
IST == 11

UTC == 0

\* tzinfo values: None, or a fixed offset from UTC in slots
NoTz == [none |-> TRUE, off |-> 0]

Tz(off) == [none |-> FALSE, off |-> off]

\* a datetime value
DateTime(s, tz) == [slot |-> s, tzinfo |-> tz]

\* dt.astimezone(timezone.utc) of an aware datetime: OverflowError when the
\* UTC wall clock leaves datetime.min .. datetime.max
AsTimezoneUTC(dt) ==
    LET u == dt.slot - dt.tzinfo.off
    IN  IF u < MinSlot \/ u > MaxSlot
        THEN [raised |-> "OverflowError"]
        ELSE [raised |-> "none", value |-> DateTime(u, Tz(UTC))]

\* dt.replace(tzinfo=tz)
ReplaceTzinfo(dt, tz) == DateTime(dt.slot, tz)

\* dt.strftime('%Y-%m-%d') reduced to the day number it prints
StrftimeDay(dt) == dt.slot \div SlotsPerDay

----------------------------------------------------------------------------
(* math.sin, math.cos, math.atan2 on degrees *)

TrigScale == 10000

\* sin of 0 .. 90 whole degrees, times TrigScale
SinTable ==
    <<0, 175, 349, 523, 698, 872, 1045, 1219, 1392, 1564, 1736, 1908, 2079,
      2250, 2419, 2588, 2756, 2924, 3090, 3256, 3420, 3584, 3746, 3907, 4067,
      4226, 4384, 4540, 4695, 4848, 5000, 5150, 5299, 5446, 5592, 5736, 5878,
      6018, 6157, 6293, 6428, 6561, 6691, 6820, 6947, 7071, 7193, 7314, 7431,
      7547, 7660, 7771, 7880, 7986, 8090, 8192, 8290, 8387, 8480, 8572, 8660,
      8746, 8829, 8910, 8988, 9063, 9135, 9205, 9272, 9336, 9397, 9455, 9511,
      9563, 9613, 9659, 9703, 9744, 9781, 9816, 9848, 9877, 9903, 9925, 9945,
      9962, 9976, 9986, 9994, 9998, 10000>>

\* sin of a whole number of degrees, times TrigScale
SinWhole(k) ==
    LET a == k % 360
    IN  IF a <= 90 THEN SinTable[a + 1]
        ELSE IF a <= 180 THEN SinTable[180 - a + 1]
        ELSE IF a <= 270 THEN -SinTable[a - 180 + 1]
        ELSE -SinTable[360 - a + 1]

CosWhole(k) == SinWhole(k + 90)

\* math.sin(math.radians(x)): the table, interpolated within the degree
SinDeg(x) ==
    LET t0 == SinWhole(x[1])
        t1 == SinWhole(x[1] + 1)
    IN  Norm(0, t0 * (ONE \div TrigScale) + (((t1 - t0) * x[2]) \div TrigScale))

CosDeg(x) == SinDeg(Add(x, Whole(90)))

\* a value of magnitude below 2^31 / TrigScale as a whole number of 1/TrigScale
Scaled(x) == x[1] * TrigScale + (x[2] \div (ONE \div TrigScale))

\* the whole degrees in 0 .. 89 of the direction (u, v), u >= 0, v >= 0,
\* not both 0: the last k with tan(k) <= v / u
QuadrantDeg(u, v) ==
    CHOOSE k \in 0..89 :
        /\ u * SinWhole(k) <= v * CosWhole(k)
        /\ k = 89 \/ u * SinWhole(k + 1) > v * CosWhole(k + 1)

\* math.degrees(math.atan2(y, x)) % 360.0, cut down to whole degrees;
\* atan2(0, 0) is 0
Atan2Deg(y, x) ==
    LET yi == Scaled(y)
        xi == Scaled(x)
    IN  Whole(IF xi = 0 /\ yi = 0 THEN 0
              ELSE IF xi > 0 /\ yi >= 0 THEN QuadrantDeg(xi, yi)
              ELSE IF xi <= 0 /\ yi > 0 THEN 90 + QuadrantDeg(yi, -xi)
              ELSE IF xi < 0 /\ yi <= 0 THEN 180 + QuadrantDeg(-xi, -yi)
              ELSE 270 + QuadrantDeg(-yi, xi))

----------------------------------------------------------------------------
(* astro_logic.py *)

\* Julian date of a UTC slot
JulianDate(s) == Add(FP(1721425, 5000000), DivNat(Whole(s), SlotsPerDay))

J2000 == Whole(2451545)

JulianCentury == 36525

\* ts.from_datetime(dt): the Skyfield time of an aware datetime
get_skyfield_time_from_datetime(dt) ==
    LET u == dt.slot - dt.tzinfo.off
    IN  [utc |-> u, has_utc |-> TRUE, tt |-> JulianDate(u), ut1 |-> JulianDate(u)]

_limit360(x) == PyMod(x, 360)

signs ==
    <<"Aries", "Taurus", "Gemini", "Cancer", "Leo", "Virgo", "Libra",
      "Scorpio", "Sagittarius", "Capricorn", "Aquarius", "Pisces">>

get_zodiac_sign(deg) == signs[(PyMod(deg, 360)[1] \div 30) + 1]

gmst_in_degrees(time_obj) ==
    LET jd_ut1 == time_obj.ut1
        d      == Sub(jd_ut1, J2000)
        T_ut1  == DivNat(d, JulianCentury)
        T2     == Mul(T_ut1, T_ut1)
        T3     == Mul(T2, T_ut1)
    IN  PyMod(Sub(Add(Add(FP(280, 4606184), Mul(FP(360, 9856474), d)),
                      Mul(FP(0, 3879), T2)),
                  DivNat(T3, 38710000)), 360)

\* the tuple local_sidereal_time_degrees returns, from gmst_deg and lst_hours
lst_tuple(gmst_deg, lst_hours) ==
    [lst_deg |-> Mul(lst_hours, Whole(15)), gmst_deg |-> gmst_deg,
     gmst_hours |-> DivNat(gmst_deg, 15), lst_hours |-> lst_hours]

\* lines 51-55 of local_sidereal_time_degrees
lst_wrapped(gmst_deg, longitude_east_deg) ==
    lst_tuple(gmst_deg,
              PyMod(Add(DivNat(gmst_deg, 15), DivNat(longitude_east_deg, 15)), 24))

\* local sidereal time without the wrap modulo 24 hours: what C7_LstPeriodic
\* has to tell apart from local_sidereal_time_degrees
local_sidereal_time_unwrapped(time_obj, longitude_east_deg) ==
    lst_tuple(gmst_in_degrees(time_obj),
              Add(DivNat(gmst_in_degrees(time_obj), 15), DivNat(longitude_east_deg, 15)))

local_sidereal_time_degrees(time_obj, longitude_east_deg) ==
    lst_wrapped(gmst_in_degrees(time_obj), longitude_east_deg)

\* Julian centuries of TT since J2000
T_j2000(time_obj) == DivNat(Sub(time_obj.tt, J2000), JulianCentury)

\* mean longitude of the lunar ascending node
mean_node(T) ==
    PyMod(Add(Sub(FP(125, 445200), Mul(FP(1934, 1362610), T)),
              Mul(FP(0, 20708), Mul(T, T))), 360)

epoch_year == Whole(285)

rate_arcsec_per_year == FP(50, 2388500)

calculate_lahiri_ayanamsa(time_obj, add_nutation) ==
    LET year          == YearOf(time_obj.utc)
        start_of_year == Slot(year, 1, 1, 0, 0)
        day_of_year   == DivNat(Whole(time_obj.utc - start_of_year), SlotsPerDay)
        year_decimal  ==
            IF time_obj.has_utc
            THEN Add(Whole(year), DivNat(Mul(day_of_year, Whole(10000)), 3652425))
            ELSE Add(Whole(2000), Mul(T_j2000(time_obj), Whole(100)))
        years_since   == Sub(year_decimal, epoch_year)
        ayan_arcsec   == Mul(years_since, rate_arcsec_per_year)
        mean_ayan_deg == DivNat(ayan_arcsec, 3600)
        T      == T_j2000(time_obj)
        L_sun  == PyMod(Add(FP(280, 4665000), Mul(FP(36000, 7698000), T)), 360)
        L_moon == PyMod(Add(FP(218, 3165000), Mul(FP(481267, 8813000), T)), 360)
        omega  == mean_node(T)
        delta_psi_arcsec ==
            Add(Sub(Sub(Neg(Mul(FP(17, 2000000), SinDeg(omega))),
                        Mul(FP(1, 3200000), SinDeg(Mul(Whole(2), L_sun)))),
                    Mul(FP(0, 2300000), SinDeg(Mul(Whole(2), L_moon)))),
                Mul(FP(0, 2100000), SinDeg(Mul(Whole(2), omega))))
        delta_psi_deg ==
            IF add_nutation THEN DivNat(delta_psi_arcsec, 3600) ELSE Whole(0)
    IN  _limit360(Add(mean_ayan_deg, delta_psi_deg))

\* The ephemeris provider (de421.bsp behind Skyfield).  The segment covers
\* 1899-07-29 .. 2053-10-09 in TDB; TDB runs about a minute ahead of UTC, so
\* on the slot grid the last covered UTC slot is the one before the end.
EphemerisStart == FP(2414864, 5000000)

EphemerisEnd == FP(2471184, 5000000)

EphemerisCovers(time_obj) ==
    Leq(EphemerisStart, time_obj.tt) /\ Lt(time_obj.tt, EphemerisEnd)

grahas == <<"Sun", "Moon", "Mars", "Mercury", "Jupiter", "Venus", "Saturn">>

\* earth.at(time_obj).observe(body).ecliptic_latlon(): eph[i] is the
\* longitude the provider reports for grahas[i]
observe(time_obj, eph, i) ==
    IF EphemerisCovers(time_obj)
    THEN [raised |-> "none", degrees |-> eph[i]]
    ELSE [raised |-> "EphemerisRangeError"]

\* the d, m, s of the degrees-minutes-seconds string
dms_of(deg_in_sign) ==
    LET d    == PyInt(deg_in_sign)
        mins == Mul(Sub(deg_in_sign, Whole(d)), Whole(60))
        m    == PyInt(mins)
        s    == PyRound(Mul(Sub(mins, Whole(m)), Whole(60)), 2)
    IN  [d |-> d, m |-> m, s |-> s]

graha_entry(name, ecl_lon, ayanamsa_deg) ==
    LET trop        == PyMod(ecl_lon, 360)
        sid         == _limit360(Sub(trop, ayanamsa_deg))
        deg_in_sign == PyMod(sid, 30)
    IN  [graha |-> name,
         tropical_deg |-> PyRound(trop, 6),
         sidereal_deg |-> PyRound(sid, 6),
         sign |-> get_zodiac_sign(sid),
         deg_in_sign |-> PyRound(deg_in_sign, 6),
         dms |-> dms_of(deg_in_sign)]

get_planetary_positions_sidereal(time_obj, ayanamsa_deg, eph) ==
    LET T         == T_j2000(time_obj)
        omega     == mean_node(T)
        rahu_trop == omega
        rahu_sid  == _limit360(Sub(rahu_trop, ayanamsa_deg))
        ketu_sid  == _limit360(Add(rahu_sid, Whole(180)))
        rahu == [graha |-> "Rahu",
                 tropical_deg |-> PyRound(rahu_trop, 6),
                 sidereal_deg |-> PyRound(rahu_sid, 6),
                 sign |-> get_zodiac_sign(rahu_sid)]
        ketu == [graha |-> "Ketu",
                 tropical_deg |-> PyRound(_limit360(Add(rahu_trop, Whole(180))), 6),
                 sidereal_deg |-> PyRound(ketu_sid, 6),
                 sign |-> get_zodiac_sign(ketu_sid)]
    IN  IF observe(time_obj, eph, 1).raised # "none"
        THEN [raised |-> observe(time_obj, eph, 1).raised]
        ELSE [raised |-> "none",
              value |-> [i \in 1..7 |->
                            graha_entry(grahas[i], observe(time_obj, eph, i).degrees,
                                        ayanamsa_deg)]
                        \o <<rahu, ketu>>]

\* tan(l) is sin(l) / cos(l); both arguments of atan2 are multiplied by
\* cos(l), which is >= 0 for a latitude in -90 .. 90 and leaves the angle
\* unchanged (math.tan(math.radians(90.0)) is the finite 1.633e16, so the
\* source raises nothing at the poles and returns atan2(~0, -sin(e))).
ascendant_tropical_from_lst_deg(lst_deg, lat_deg, eps_deg) ==
    LET y == Mul(CosDeg(lst_deg), CosDeg(lat_deg))
        x == Neg(Add(Mul(Mul(SinDeg(lst_deg), CosDeg(eps_deg)), CosDeg(lat_deg)),
                     Mul(SinDeg(lat_deg), SinDeg(eps_deg))))
    IN  PyMod(Atan2Deg(y, x), 360)

mc_tropical_from_lst_deg(lst_deg, eps_deg) ==
    PyMod(Atan2Deg(Mul(SinDeg(lst_deg), CosDeg(eps_deg)), CosDeg(lst_deg)), 360)

\* obliquity of the ecliptic (TT-based), from T_tt
eps_deg_of(T_tt) ==
    Add(Sub(Sub(FP(23, 4392911), Mul(FP(0, 130042), T_tt)),
            Mul(FP(0, 2), Mul(T_tt, T_tt))),
        Mul(FP(0, 5), Mul(Mul(T_tt, T_tt), T_tt)))

\* the dict calculate_lagna_and_primaries returns
primaries(lst, eps_deg, asc_trop, mc_trop, ayanamsa_deg) ==
    [asc_tropical_deg |-> asc_trop,
     asc_sidereal_deg |-> _limit360(Sub(asc_trop, ayanamsa_deg)),
     mc_tropical_deg |-> mc_trop,
     desc_tropical_deg |-> PyMod(Add(asc_trop, Whole(180)), 360),
     ic_tropical_deg |-> PyMod(Add(mc_trop, Whole(180)), 360),
     lst_deg |-> lst.lst_deg, lst_hours |-> lst.lst_hours,
     gmst_deg |-> lst.gmst_deg, gmst_hours |-> lst.gmst_hours,
     eps_deg |-> eps_deg]

\* lines 173-191 of calculate_lagna_and_primaries
lagna_from_lst(lst, eps_deg, latitude, ayanamsa_deg) ==
    primaries(lst, eps_deg,
              ascendant_tropical_from_lst_deg(lst.lst_deg, latitude, eps_deg),
              mc_tropical_from_lst_deg(lst.lst_deg, eps_deg),
              ayanamsa_deg)

calculate_lagna_and_primaries(time_obj, latitude, longitude_east_deg, ayanamsa_deg) ==
    lagna_from_lst(local_sidereal_time_degrees(time_obj, longitude_east_deg),
                   eps_deg_of(T_j2000(time_obj)), latitude, ayanamsa_deg)

\* the forward arc (b - a + 360) % 360
forward_arc(a, b) == PyMod(Add(Sub(b, a), Whole(360)), 360)

\* the two cusps that trisect the quadrant from a to b
trisect(a, b) ==
    LET arc == forward_arc(a, b)
    IN  <<_limit360(Add(a, DivNat(arc, 3))),
          _limit360(Add(a, DivNat(Mul(Whole(2), arc), 3)))>>

\* the dict calculate_sripati_house_cusps returns (with the tropical cusps,
\* which the source keeps in a local)
house_cusps(prim, cusps_trop, ayanamsa_deg) ==
    [cusps_sid |-> [i \in 1..12 |-> _limit360(Sub(cusps_trop[i], ayanamsa_deg))],
     primaries |-> prim, cusps_trop |-> cusps_trop]

\* lines 197-233 of calculate_sripati_house_cusps
cusps_from_primaries(prim, asc_trop, ic_trop, desc_trop, mc_trop, ayanamsa_deg) ==
    house_cusps(prim,
                <<asc_trop, trisect(asc_trop, ic_trop)[1], trisect(asc_trop, ic_trop)[2],
                  ic_trop, trisect(ic_trop, desc_trop)[1], trisect(ic_trop, desc_trop)[2],
                  desc_trop, trisect(desc_trop, mc_trop)[1], trisect(desc_trop, mc_trop)[2],
                  mc_trop, trisect(mc_trop, asc_trop)[1], trisect(mc_trop, asc_trop)[2]>>,
                ayanamsa_deg)

sripati_from_primaries(prim, ayanamsa_deg) ==
    cusps_from_primaries(prim, prim.asc_tropical_deg, prim.ic_tropical_deg,
                         prim.desc_tropical_deg, prim.mc_tropical_deg, ayanamsa_deg)

calculate_sripati_house_cusps(time_obj, latitude, longitude_east_deg, ayanamsa_deg) ==
    sripati_from_primaries(
        calculate_lagna_and_primaries(time_obj, latitude, longitude_east_deg,
                                      ayanamsa_deg),
        ayanamsa_deg)

----------------------------------------------------------------------------
(* main.py: the V1 endpoint *)

VARIABLES
    request,      \* the BirthInput of the last call and what the provider held
    response,     \* the HTTP outcome of the last call
    t,            \* locals of get_vedic_chart when the try block was entered
    ayan,
    lagna_info,
    houses_data,
    planets,
    pending,      \* direct calls of astro_logic functions still to be made
    call,         \* the last direct call made
    prev          \* the direct call before it

vars == <<request, response, t, ayan, lagna_info, houses_data, planets,
          pending, call, prev>>

handler_vars == <<request, response, t, ayan, lagna_info, houses_data, planets>>

\* a local that was never assigned
Unset == <<>>

min_date == DateTime(Slot(1899, 7, 29, 0, 0), Tz(UTC))

max_date == DateTime(Slot(2053, 10, 9, 0, 0), Tz(UTC))

\* comparison of two aware datetimes
Before(a, b) == a.slot - a.tzinfo.off < b.slot - b.tzinfo.off

\* lines 66-69: the instant the range check looks at
dt_check_of(dt_in) ==
    IF dt_in.tzinfo.none
    THEN AsTimezoneUTC(ReplaceTzinfo(dt_in, Tz(IST)))
    ELSE AsTimezoneUTC(dt_in)

\* a naive datetime taken as UTC instead of IST: what C5_NaiveAssumedIST has
\* to tell apart from dt_local_of
dt_local_assuming_utc(dt_in) ==
    IF dt_in.tzinfo.none THEN ReplaceTzinfo(dt_in, Tz(UTC)) ELSE dt_in

\* lines 79-84
dt_local_of(dt_in) ==
    IF dt_in.tzinfo.none THEN ReplaceTzinfo(dt_in, Tz(IST)) ELSE dt_in

assumed_tz_of(dt_in) == IF dt_in.tzinfo.none THEN "assumed_IST" ELSE "from_input"

\* an exception that escapes the handler: the framework answers 500
Unhandled(exc) == [status |-> 500, detail |-> "Internal Server Error", exc |-> exc]

\* lines 72-76
RangeRejected(dt_check) ==
    [status |-> 400, detail |-> "Birth date must be between",
     min |-> StrftimeDay(min_date), max |-> StrftimeDay(max_date),
     provided |-> StrftimeDay(dt_check)]

\* lines 99-109
CalculationFailed(exc, dt_check) ==
    IF exc = "EphemerisRangeError"
    THEN [status |-> 400, detail |-> "is outside the supported ephemeris range",
          min |-> StrftimeDay(min_date), max |-> StrftimeDay(max_date),
          provided |-> StrftimeDay(dt_check)]
    ELSE [status |-> 500, detail |-> "Calculation error", exc |-> exc]

\* lines 111-139
Chart(data, dt_utc, p_ayan, p_lagna, p_cusps, p_planets) ==
    [status |-> 200,
     name |-> data.name,
     birthplace |-> data.birthplace,
     birth_datetime_input |-> data.birth_datetime,
     assumed_tz_handling |-> assumed_tz_of(data.birth_datetime),
     birth_datetime_used_utc |-> dt_utc,
     ayanamsa_deg |-> PyRound(p_ayan, 9),
     lagna_sidereal_deg |-> PyRound(p_lagna.asc_sidereal_deg, 6),
     lagna_sign |-> get_zodiac_sign(p_lagna.asc_sidereal_deg),
     moon_sign |-> p_planets[2].sign,
     houses_sidereal |->
        [i \in 1..12 |-> [house |-> i, cusp_deg |-> PyRound(p_cusps[i], 6),
                          sign |-> get_zodiac_sign(p_cusps[i])]],
     planets_sidereal |-> p_planets,
     debug |-> [gmst_deg |-> PyRound(p_lagna.gmst_deg, 9),
                gmst_hours |-> PyRound(p_lagna.gmst_hours, 9),
                lst_deg |-> PyRound(p_lagna.lst_deg, 9),
                lst_hours |-> PyRound(p_lagna.lst_hours, 9),
                eps_deg |-> PyRound(p_lagna.eps_deg, 9),
                primary_tropical_asc_deg |-> PyRound(p_lagna.asc_tropical_deg, 6),
                primary_tropical_mc_deg |-> PyRound(p_lagna.mc_tropical_deg, 6)]]

NoLocals ==
    /\ t' = Unset
    /\ ayan' = Unset
    /\ lagna_info' = Unset
    /\ houses_data' = Unset
    /\ planets' = Unset

\* the request in flight has no response yet
Pending == [status |-> 0]

\* no request has arrived yet
Idle == [status |-> -1]

\* POST /vedic-chart: the handler answers the request in flight
get_vedic_chart ==
    LET data     == request.data
        eph      == request.eph
        dt_in    == data.birth_datetime
        dt_check == dt_check_of(dt_in)
        dt_local == dt_local_of(dt_in)
    IN  /\ response = Pending
        /\ UNCHANGED <<request, pending, call, prev>>
        /\ IF dt_check.raised # "none"
           THEN response' = Unhandled(dt_check.raised) /\ NoLocals
           ELSE IF Before(dt_check.value, min_date) \/ Before(max_date, dt_check.value)
           THEN response' = RangeRejected(dt_check.value) /\ NoLocals
           ELSE /\ t' = get_skyfield_time_from_datetime(AsTimezoneUTC(dt_local).value)
                /\ ayan' = calculate_lahiri_ayanamsa(t', TRUE)
                /\ lagna_info' = calculate_lagna_and_primaries(
                                    t', data.latitude, data.longitude, ayan')
                /\ houses_data' = calculate_sripati_house_cusps(
                                    t', data.latitude, data.longitude, ayan')
                /\ planets' = get_planetary_positions_sidereal(t', ayan', eph)
                /\ response' =
                     IF planets'.raised # "none"
                     THEN CalculationFailed(planets'.raised, dt_check.value)
                     ELSE Chart(data, AsTimezoneUTC(dt_local).value, ayan', lagna_info',
                                houses_data'.cusps_sid, planets'.value)

----------------------------------------------------------------------------
(* direct calls of the astro_logic functions *)

NoCall == [fn |-> "none"]

call_calculate_lahiri_ayanamsa ==
    /\ pending # <<>>
    /\ Head(pending).fn = "calculate_lahiri_ayanamsa"
    /\ LET a == Head(pending)
       IN  call' = [fn |-> a.fn, time_obj |-> a.time_obj,
                    add_nutation |-> a.add_nutation,
                    ret |-> calculate_lahiri_ayanamsa(a.time_obj, a.add_nutation)]
    /\ prev' = call
    /\ pending' = Tail(pending)
    /\ UNCHANGED handler_vars

call_get_planetary_positions_sidereal ==
    /\ pending # <<>>
    /\ Head(pending).fn = "get_planetary_positions_sidereal"
    /\ LET a == Head(pending)
       IN  call' = [fn |-> a.fn, time_obj |-> a.time_obj,
                    ayanamsa_deg |-> a.ayanamsa_deg, eph |-> a.eph,
                    ret |-> get_planetary_positions_sidereal(
                                a.time_obj, a.ayanamsa_deg, a.eph)]
    /\ prev' = call
    /\ pending' = Tail(pending)
    /\ UNCHANGED handler_vars

----------------------------------------------------------------------------
(* inputs *)

\* longitudes are tried with 0 .. MaxTurns whole turns added
MaxTurns == 1

BirthSlots ==
    {MinSlot, Slot(1899, 7, 28, 12, 0), Slot(1899, 7, 29, 0, 0),
     Slot(1899, 7, 29, 5, 30), Slot(1990, 5, 15, 10, 0), Slot(2020, 12, 31, 12, 0),
     Slot(2053, 10, 8, 23, 30), Slot(2053, 10, 9, 0, 0), Slot(2053, 10, 9, 5, 30),
     Slot(2053, 10, 10, 0, 0), MaxSlot}

TzInfos == {NoTz, Tz(IST), Tz(UTC), Tz(-10)}

Latitudes == {FP(28, 6139000), FP(80, 0), FP(89, 9990000), FP(90, 0), FP(-90, 0)}

BaseLongitudes == {FP(77, 5946000), Neg(FP(122, 4194000))}

Longitudes == {Add(l, Whole(360 * k)) : l \in BaseLongitudes, k \in 0..MaxTurns}

BirthInput(dt, lat, lon) ==
    [name |-> "name", birthplace |-> "birthplace", birth_datetime |-> dt,
     latitude |-> lat, longitude |-> lon]

\* every datetime at one place, and two datetimes at every place
Requests ==
    {BirthInput(DateTime(s, tz), FP(28, 6139000), FP(77, 5946000)) :
        s \in BirthSlots, tz \in TzInfos}
    \cup {BirthInput(dt, lat, lon) :
            dt \in {DateTime(Slot(1990, 5, 15, 10, 0), Tz(IST)),
                    DateTime(Slot(2020, 12, 31, 12, 0), NoTz)},
            lat \in Latitudes, lon \in Longitudes}

\* Longitudes the provider may report for the seven bodies.  The provider is
\* free to report any longitude; the samples are given either directly or as
\* the sidereal longitude they lead to under the ayanamsa a.
SiderealSamples ==
    <<  <<FP(12, 3456789), FP(45, 5000000), FP(100, 4), FP(200, 2500000),
          FP(270, 9999994), FP(300, 1234565), FP(330, 0)>>,
        <<FP(359, 9999996), FP(0, 0), FP(29, 9999996), FP(59, 166666),
          FP(179, 9999996), FP(0, 4), FP(359, 9999994)>>,
        <<FP(59, 9999999), FP(119, 9833333), FP(150, 166667), FP(210, 9999166),
          FP(239, 9999950), FP(300, 0), FP(1, 0)>>  >>

TropicalSamples ==
    <<  <<FP(359, 9999997), FP(0, 1), FP(90, 0), FP(180, 0), FP(270, 0),
          FP(123, 4567890), FP(23, 5000000)>>  >>

ProviderOutputs(a) ==
    {[i \in 1..7 |-> _limit360(Add(SiderealSamples[k][i], a))] :
        k \in 1..Len(SiderealSamples)}
    \cup {TropicalSamples[k] : k \in 1..Len(TropicalSamples)}

\* the ayanamsa the handler will compute for a request that reaches the try block
ayanamsa_for(data) ==
    LET c == dt_check_of(data.birth_datetime)
    IN  IF c.raised # "none" THEN Whole(24)
        ELSE calculate_lahiri_ayanamsa(get_skyfield_time_from_datetime(c.value), TRUE)

\* instants for the direct calls
CallSlots ==
    {Slot(1900, 12, 31, 23, 30), Slot(1901, 1, 1, 0, 0), Slot(1990, 5, 15, 4, 30),
     Slot(2000, 12, 31, 12, 0), Slot(2001, 1, 1, 0, 0), Slot(2019, 12, 31, 23, 30),
     Slot(2020, 1, 1, 0, 0), Slot(2020, 12, 31, 5, 30), Slot(2020, 12, 31, 6, 0),
     Slot(2020, 12, 31, 23, 30), Slot(2021, 1, 1, 0, 0), Slot(2021, 6, 30, 0, 0)}

time_at(s) == get_skyfield_time_from_datetime(DateTime(s, Tz(UTC)))

AyanamsaCalls ==
    {[fn |-> "calculate_lahiri_ayanamsa", time_obj |-> time_at(s), add_nutation |-> n] :
        s \in CallSlots, n \in BOOLEAN}

PlanetSlots ==
    {Slot(1899, 7, 28, 0, 0), Slot(1990, 5, 15, 4, 30), Slot(2020, 12, 31, 6, 0),
     Slot(2053, 10, 8, 23, 30)}

\* ayanamsa arguments: plain values, and values that put Rahu at a chosen
\* sidereal longitude
AyanamsaInputs(time_obj) ==
    {FP(23, 8020342), Whole(0)}
    \cup {_limit360(Sub(mean_node(T_j2000(time_obj)), r)) :
            r \in {FP(179, 9999996), FP(359, 9999996), FP(45, 1234564)}}

PlanetCalls ==
    UNION {{[fn |-> "get_planetary_positions_sidereal", time_obj |-> time_at(s),
             ayanamsa_deg |-> a, eph |-> e] : e \in ProviderOutputs(a)} :
           s \in PlanetSlots, a \in UNION {AyanamsaInputs(time_at(s2)) : s2 \in PlanetSlots}}

----------------------------------------------------------------------------
(* specifications *)

NoLocalsYet ==
    /\ t = Unset
    /\ ayan = Unset
    /\ lagna_info = Unset
    /\ houses_data = Unset
    /\ planets = Unset

\* the requests a client may send, each with what the provider would report
ChartRequests ==
    UNION {{[data |-> data, eph |-> eph] : eph \in ProviderOutputs(ayanamsa_for(data))} :
           data \in Requests}

\* the server is up and no request has arrived
Init ==
    /\ request = Unset
    /\ response = Idle
    /\ NoLocalsYet
    /\ pending = <<>>
    /\ call = NoCall
    /\ prev = NoCall

\* a chart request arrives once the previous one is answered
receive ==
    /\ response # Pending
    /\ \E r \in ChartRequests : request' = r
    /\ response' = Pending
    /\ NoLocals
    /\ UNCHANGED <<pending, call, prev>>

Next == receive \/ get_vedic_chart

Spec == Init /\ [][Next]_vars

\* two direct calls of calculate_lahiri_ayanamsa are to be made
InitAyanamsa ==
    /\ request = Unset
    /\ response = Idle
    /\ NoLocalsYet
    /\ \E a \in AyanamsaCalls, b \in AyanamsaCalls : pending = <<a, b>>
    /\ call = NoCall
    /\ prev = NoCall

NextAyanamsa == call_calculate_lahiri_ayanamsa

SpecAyanamsa == InitAyanamsa /\ [][NextAyanamsa]_vars

\* one direct call of get_planetary_positions_sidereal is to be made
InitPlanets ==
    /\ request = Unset
    /\ response = Idle
    /\ NoLocalsYet
    /\ \E a \in PlanetCalls : pending = <<a>>
    /\ call = NoCall
    /\ prev = NoCall

NextPlanets == call_get_planetary_positions_sidereal

SpecPlanets == InitPlanets /\ [][NextPlanets]_vars

----------------------------------------------------------------------------
(* properties *)

Answered == response.status > 0

ChartReturned == response.status = 200

InTurn(x) == Leq(Whole(0), x) /\ Lt(x, Whole(360))

\* the sum of the twelve forward arcs cusp[i] -> cusp[i + 1]
RECURSIVE ArcSum(_, _)
ArcSum(cusps, i) ==
    IF i = 0 THEN Whole(0)
    ELSE Add(ArcSum(cusps, i - 1),
             PyMod(Sub(cusps[(i % 12) + 1], cusps[i]), 360))

OneTurn(cusps) ==
    /\ \A i \in 1..12 : Leq(Whole(0), PyMod(Sub(cusps[(i % 12) + 1], cusps[i]), 360))
    /\ ArcSum(cusps, 12) = Whole(360)

\* C1: the twelve Sripati cusps start at the ascendant and go once round the
\* zodiac: the forward arcs are non-negative and sum to exactly 360 degrees,
\* before and after the ayanamsa is subtracted.
C1_CuspsOneTurn ==
    ChartReturned =>
        /\ houses_data.cusps_trop[1] = houses_data.primaries.asc_tropical_deg
        /\ OneTurn(houses_data.cusps_trop)
        /\ OneTurn(houses_data.cusps_sid)

\* the instant of the request in UTC, as the handler converts it
utc_slot_of(data) ==
    data.birth_datetime.slot
        - (IF data.birth_datetime.tzinfo.none THEN IST ELSE data.birth_datetime.tzinfo.off)

OutOfRange(data) ==
    utc_slot_of(data) < min_date.slot \/ utc_slot_of(data) > max_date.slot

\* C2: a request whose instant in UTC lies before 1899-07-29 or after
\* 2053-10-09 is answered 400 with the supported bounds, never 500 and never
\* with a chart.
C2_OutOfRangeIs400 ==
    (Answered /\ OutOfRange(request.data)) =>
        /\ response.status = 400
        /\ response.min = StrftimeDay(min_date)
        /\ response.max = StrftimeDay(max_date)

\* the membership test of house i (1 .. 12) for a longitude
InHouse(cusps, i, lon) ==
    LET a == cusps[i]
        b == cusps[(i % 12) + 1]
    IN  IF Leq(a, b) THEN Leq(a, lon) /\ Lt(lon, b)
        ELSE Leq(a, lon) \/ Lt(lon, b)

\* C3: every one of the nine planets of a chart is reported with exactly one
\* house in 1 .. 12, the only house whose membership test its sidereal
\* longitude passes.
C3_EveryPlanetHasOneHouse ==
    ChartReturned =>
        \A k \in 1..9 :
            LET p == response.planets_sidereal[k]
            IN  /\ "house" \in DOMAIN p
                /\ p.house \in 1..12
                /\ {i \in 1..12 : InHouse(houses_data.cusps_sid, i, p.sidereal_deg)}
                      = {p.house}

Polar(data) == data.latitude = Whole(90) \/ data.latitude = Whole(-90)

\* C4: a request with latitude +90 or -90 fails with PolarLatitudeError and
\* never returns a chart, while a latitude of 89.999 raises nothing.
C4_PolarLatitudeRejected ==
    /\ (Answered /\ Polar(request.data)) => ~ChartReturned
    /\ (Answered /\ request.data.latitude = FP(89, 9990000) /\ ~OutOfRange(request.data))
          => response.status # 500

NaiveInput == request.data.birth_datetime.tzinfo.none

\* C5 as stated: a timezone-naive birth_datetime is rejected, so every chart
\* comes from an instant whose offset was in the input.
C5_NaiveRejected == ChartReturned => ~NaiveInput

\* C5 as amended: a timezone-naive birth_datetime is taken as IST: the chart
\* is computed from the wall clock minus 05:30 and is marked assumed_IST; a
\* chart from an aware datetime uses the input's offset and is marked
\* from_input.
C5_NaiveAssumedIST ==
    ChartReturned =>
        LET dt == request.data.birth_datetime
        IN  /\ response.birth_datetime_used_utc.tzinfo = Tz(UTC)
            /\ t.utc = response.birth_datetime_used_utc.slot
            /\ IF dt.tzinfo.none
               THEN /\ response.assumed_tz_handling = "assumed_IST"
                    /\ response.birth_datetime_used_utc.slot = dt.slot - IST
               ELSE /\ response.assumed_tz_handling = "from_input"
                    /\ response.birth_datetime_used_utc.slot = dt.slot - dt.tzinfo.off

C5_NaiveChart == ChartReturned /\ NaiveInput

PlanetsReturned ==
    call.fn = "get_planetary_positions_sidereal" /\ call.ret.raised = "none"

\* C6: in the output of get_planetary_positions_sidereal the Ketu entry's
\* sidereal longitude is normalize(Rahu entry's sidereal longitude + 180),
\* Rahu's being normalize(mean node - ayanamsa), and the tropical longitudes
\* of the two entries are 180 degrees apart in the same way.
C6_KetuOppositeRahu ==
    PlanetsReturned =>
        LET rahu == call.ret.value[8]
            ketu == call.ret.value[9]
        IN  /\ rahu.graha = "Rahu" /\ ketu.graha = "Ketu"
            /\ rahu.sidereal_deg =
                  PyRound(_limit360(Sub(mean_node(T_j2000(call.time_obj)),
                                        call.ayanamsa_deg)), 6)
            /\ ketu.sidereal_deg = _limit360(Add(rahu.sidereal_deg, Whole(180)))
            /\ ketu.tropical_deg = _limit360(Add(rahu.tropical_deg, Whole(180)))

SignAt(x) == IF x[1] \div 30 \in 0..11 THEN signs[(x[1] \div 30) + 1] ELSE "none"

\* C8: every angle of a chart response, as reported after rounding, lies in
\* [0, 360), and every reported sign is the sign-table entry at
\* floor(reported sidereal value / 30).
C8_ReportedAnglesInTurn ==
    ChartReturned =>
        /\ InTurn(response.ayanamsa_deg)
        /\ InTurn(response.lagna_sidereal_deg)
        /\ response.lagna_sign = SignAt(response.lagna_sidereal_deg)
        /\ \A i \in 1..12 :
              /\ InTurn(response.houses_sidereal[i].cusp_deg)
              /\ response.houses_sidereal[i].sign = SignAt(response.houses_sidereal[i].cusp_deg)
        /\ \A k \in 1..9 :
              /\ InTurn(response.planets_sidereal[k].tropical_deg)
              /\ InTurn(response.planets_sidereal[k].sidereal_deg)
              /\ response.planets_sidereal[k].sign
                    = SignAt(response.planets_sidereal[k].sidereal_deg)

\* C9: the degrees, minutes and seconds of every body keep degrees in
\* 0 .. 29, minutes in 0 .. 59 and the rounded seconds strictly below 60.
C9_DmsCarries ==
    PlanetsReturned =>
        \A k \in 1..7 :
            LET e == call.ret.value[k].dms
            IN  /\ e.d \in 0..29
                /\ e.m \in 0..59
                /\ Leq(Whole(0), e.s) /\ Lt(e.s, Whole(60))

\* C10: without nutation the ayanamsa never decreases from an instant to a
\* later one.
C10_AyanamsaMonotone ==
    (/\ prev.fn = "calculate_lahiri_ayanamsa"
     /\ call.fn = "calculate_lahiri_ayanamsa"
     /\ ~prev.add_nutation /\ ~call.add_nutation
     /\ prev.time_obj.utc <= call.time_obj.utc)
        => Leq(prev.ret, call.ret)

====
